---- MODULE Spec2Model ----
(***************************************************************************)
(* good-days-to-bike (src/src/main.rs): fetch the hourly forecast, keep    *)
(* the periods that pass the suitability policy, coalesce periods that run *)
(* together, format the ranges, print and post the message.                *)
(*                                                                         *)
(* A Rust String is modelled as a sequence of one-character strings, so    *)
(* that split and parse are computed character by character.  Timestamps   *)
(* are opaque strings compared by equality; chrono's RFC 3339 parser is a  *)
(* table over the timestamps the model uses.                               *)
(***************************************************************************)
EXTENDS Integers, Sequences, FiniteSets, TLC

VARIABLES
    pc,          \* position of main: "env", "fetch", "filter", "coalesce",
                 \* "format", "print", "post", "done";
                 \* of the parser harness: "parse", "parsed"
    result,      \* how the run ended: "running", "Ok", "ErrEnv", "ErrFetch",
                 \* "ErrJson", "ErrPost", "Panic"
    served,      \* the periods the forecast service would answer with
    i,           \* get_forecast_with_retries: the retry counter
    sends,       \* get_forecast_with_retries: client.get(url).send() calls made
    sleeps,      \* get_forecast_with_retries: the seconds slept, in order
    resp,        \* main: resp.properties.periods
    idx,         \* main: position of the filter loop in resp (next to read)
    periods,     \* main: the suitable periods, the argument of coalesce
    cidx,        \* coalesce: position of the loop in periods (next to read)
    tp,          \* coalesce: the working list of TimePeriod
    entries,     \* main: the lines pretty() has produced so far
    msg,         \* main: the composed message (NoMsg until composed)
    stdout,      \* what println! has written: a sequence of messages
    sink,        \* what has been handed to client.post(pushover_url)
    descriptor,  \* parser harness: the argument of parse_wind_speed
    wind         \* parser harness: its result (NoWind until it returned)

vars == <<pc, result, served, i, sends, sleeps, resp, idx, periods, cidx, tp,
          entries, msg, stdout, sink, descriptor, wind>>

(***************************************************************************)
(* Bounds of the model.                                                    *)
(***************************************************************************)
MaxPeriods == 3         \* periods in a served forecast (pipeline)
MaxFilterPeriods == 1   \* periods in a served forecast (policy grid)
MaxSuitable == 4        \* periods handed to coalesce (coalesce harness)
MaxDescriptorLen == 4   \* characters in a wind descriptor (parser harness)

(***************************************************************************)
(* Program constants.                                                      *)
(***************************************************************************)
U8Max == 255            \* u8::MAX
MaxRetries == 3         \* if i < 3

NoMsg == <<"<no message>">>
NoWind == 0 - 1
ParseErr == 0 - 1       \* Err(ParseIntError) of str::parse::<u8>

(***************************************************************************)
(* Strings.                                                                *)
(***************************************************************************)
Digit == {"0", "1", "2", "3", "4", "5", "6", "7", "8", "9"}

DigitVal(c) ==
    CASE c = "0" -> 0 [] c = "1" -> 1 [] c = "2" -> 2 [] c = "3" -> 3
      [] c = "4" -> 4 [] c = "5" -> 5 [] c = "6" -> 6 [] c = "7" -> 7
      [] c = "8" -> 8 [] c = "9" -> 9

\* s.split(' ').next(): the text before the first ' ' (the whole string when
\* it holds none).  split always yields at least one item, also for "".
RECURSIVE SplitNext(_)
SplitNext(str) ==
    IF str = <<>> THEN <<>>
    ELSE IF Head(str) = " " THEN <<>>
    ELSE <<Head(str)>> \o SplitNext(Tail(str))

\* The digit loop of u8::from_str: result = result * 10 + digit, both checked.
RECURSIVE ParseDigits(_, _)
ParseDigits(ds, acc) ==
    IF ds = <<>> THEN acc
    ELSE IF Head(ds) \notin Digit THEN ParseErr
    ELSE LET r == acc * 10 + DigitVal(Head(ds))
         IN  IF r > U8Max THEN ParseErr ELSE ParseDigits(Tail(ds), r)

\* str::parse::<u8>: empty, a lone sign, a '-', a non-digit or a value over
\* u8::MAX is an error; one leading '+' is accepted.
ParseU8(tok) ==
    IF tok = <<>> THEN ParseErr
    ELSE IF tok = <<"+">> \/ tok = <<"-">> THEN ParseErr
    ELSE IF Head(tok) = "+" THEN ParseDigits(Tail(tok), 0)
    ELSE ParseDigits(tok, 0)

\* A mutant: the descriptor is cut at any whitespace, not only at ' '.
RECURSIVE SplitWhitespaceNext(_)
SplitWhitespaceNext(str) ==
    IF str = <<>> THEN <<>>
    ELSE IF Head(str) \in {" ", "\t"} THEN <<>>
    ELSE <<Head(str)>> \o SplitWhitespaceNext(Tail(str))

parse_wind_speed_ws(str) ==
    LET r == ParseU8(SplitWhitespaceNext(str))
    IN  IF r = ParseErr THEN U8Max ELSE r

\* A mutant: a descriptor that does not parse counts as no wind.
parse_wind_speed_zero(str) ==
    LET r == ParseU8(SplitNext(str))
    IN  IF r = ParseErr THEN 0 ELSE r

\* fn parse_wind_speed(s: &str) -> u8
parse_wind_speed(str) ==
    LET r == ParseU8(SplitNext(str))
    IN  IF r = ParseErr THEN U8Max ELSE r

(***************************************************************************)
(* Timestamps.                                                             *)
(***************************************************************************)
TA  == "2024-05-01T10:00:00-04:00"
TB  == "2024-05-01T11:00:00-04:00"
TBz == "2024-05-01T15:00:00+00:00"    \* the instant of TB, written in UTC
TC  == "2024-05-01T12:00:00-04:00"
TX  == "tomorrow"                     \* not RFC 3339

\* DateTime::parse_from_rfc3339 on the timestamps of the model: the fields
\* of the parsed value, in the offset the string is written in.
parse_from_rfc3339(ts) ==
    CASE ts = TA  -> [ok |-> TRUE, weekday |-> "Wednesday", month |-> "May",
                      day |-> 1, hour |-> 10, minute |-> 0]
      [] ts = TB  -> [ok |-> TRUE, weekday |-> "Wednesday", month |-> "May",
                      day |-> 1, hour |-> 11, minute |-> 0]
      [] ts = TBz -> [ok |-> TRUE, weekday |-> "Wednesday", month |-> "May",
                      day |-> 1, hour |-> 15, minute |-> 0]
      [] ts = TC  -> [ok |-> TRUE, weekday |-> "Wednesday", month |-> "May",
                      day |-> 1, hour |-> 12, minute |-> 0]
      [] OTHER    -> [ok |-> FALSE, weekday |-> "", month |-> "",
                      day |-> 0, hour |-> 0, minute |-> 0]

(***************************************************************************)
(* The suitability policy of main's filter loop.                           *)
(***************************************************************************)
\* A mutant: 65 degrees falls in the upper band.
Suitable_upper65(period) ==
    IF period.is_daytime /\ period.precip < 25
    THEN IF period.temperature >= 50 /\ period.temperature < 65
         THEN parse_wind_speed(period.wind_speed) < 13
         ELSE IF period.temperature >= 65 /\ period.temperature <= 83
              THEN parse_wind_speed(period.wind_speed) <= 18
              ELSE FALSE
    ELSE FALSE

\* A mutant: the lower band takes the wind limit of the upper band.
Suitable_wind18(period) ==
    IF period.is_daytime /\ period.precip < 25
    THEN IF period.temperature >= 50 /\ period.temperature <= 65
         THEN parse_wind_speed(period.wind_speed) <= 18
         ELSE IF period.temperature > 65 /\ period.temperature <= 83
              THEN parse_wind_speed(period.wind_speed) <= 18
              ELSE FALSE
    ELSE FALSE

\* The condition under which the loop body reaches periods.push(period).
Suitable(period) ==
    IF period.is_daytime /\ period.precip < 25
    THEN IF period.temperature >= 50 /\ period.temperature <= 65
         THEN parse_wind_speed(period.wind_speed) < 13
         ELSE IF period.temperature > 65 /\ period.temperature <= 83
              THEN parse_wind_speed(period.wind_speed) <= 18
              ELSE FALSE
    ELSE FALSE

(***************************************************************************)
(* coalesce.                                                               *)
(***************************************************************************)
Max(a, b) == IF a >= b THEN a ELSE b

\* A mutant: the new range starts at the period's end.
NewRange_swapped(cur) ==
    [start_time |-> cur.end_time,
     end_time |-> cur.end_time,
     temp |-> cur.temperature,
     probability_of_precipitation |-> cur.precip,
     max_wind_speed |-> parse_wind_speed(cur.wind_speed)]

\* TimePeriod { start_time: cur.start_time.clone(), ... }
NewRange(cur) ==
    [start_time |-> cur.start_time,
     end_time |-> cur.end_time,
     temp |-> cur.temperature,
     probability_of_precipitation |-> cur.precip,
     max_wind_speed |-> parse_wind_speed(cur.wind_speed)]

\* A mutant: the merged range takes the period's temperature, not the max.
Merge_last(prev, cur) ==
    [prev EXCEPT
        !.end_time = cur.end_time,
        !.temp = cur.temperature,
        !.probability_of_precipitation = Max(@, cur.precip),
        !.max_wind_speed = Max(@, parse_wind_speed(cur.wind_speed))]

\* The assignments to prev of the merging branch.
Merge(prev, cur) ==
    [prev EXCEPT
        !.end_time = cur.end_time,
        !.temp = Max(@, cur.temperature),
        !.probability_of_precipitation = Max(@, cur.precip),
        !.max_wind_speed = Max(@, parse_wind_speed(cur.wind_speed))]

Pop(list) == SubSeq(list, 1, Len(list) - 1)
Last(list) == list[Len(list)]

\* A mutant: the branch that does not merge forgets to push prev back.
CoalesceStep_drop(list, cur) ==
    IF list /= <<>>
    THEN LET prev == Last(list)
             rest == Pop(list)
         IN  IF prev.end_time = cur.start_time
             THEN Append(rest, Merge(prev, cur))
             ELSE Append(rest, NewRange(cur))
    ELSE Append(list, NewRange(cur))

\* One iteration of the loop of coalesce: the working list after cur.
CoalesceStep(list, cur) ==
    IF list /= <<>>
    THEN LET prev == Last(list)
             rest == Pop(list)
         IN  IF prev.end_time = cur.start_time
             THEN Append(rest, Merge(prev, cur))
             ELSE Append(Append(rest, prev), NewRange(cur))
    ELSE Append(list, NewRange(cur))

\* fn coalesce(periods: Vec<&Period>) -> Vec<TimePeriod>, as a fold.
RECURSIVE CoalesceFrom(_, _)
CoalesceFrom(list, ps) ==
    IF ps = <<>> THEN list
    ELSE CoalesceFrom(CoalesceStep(list, Head(ps)), Tail(ps))

coalesce(ps) == CoalesceFrom(<<>>, ps)

(***************************************************************************)
(* TimePeriod::pretty and the message of main.  A text is a sequence of    *)
(* string tokens; numbers are rendered in decimal.                         *)
(***************************************************************************)
Banner == "*Good bike times in the next 7 days*"   \* with its two sun emoji
NL == "\n"

Pad2(n) == IF n < 10 THEN <<"0", ToString(n)>> ELSE <<ToString(n)>>
Hour12(h) == IF h % 12 = 0 THEN 12 ELSE h % 12
AmPm(h) == IF h < 12 THEN "AM" ELSE "PM"

\* .format("%A, %B %d %I:%M%p")
FormatStart(d) ==
    <<d.weekday, ", ", d.month, " ">> \o Pad2(d.day) \o <<" ">>
        \o Pad2(Hour12(d.hour)) \o <<":">> \o Pad2(d.minute) \o <<AmPm(d.hour)>>

\* .format("%I:%M%p")
FormatEnd(d) ==
    Pad2(Hour12(d.hour)) \o <<":">> \o Pad2(d.minute) \o <<AmPm(d.hour)>>

\* A mutant: a timestamp that does not parse is tolerated.
PrettyPanics_never(time) == FALSE

\* Either .unwrap() of pretty panics.
PrettyPanics(time) ==
    \/ ~parse_from_rfc3339(time.start_time).ok
    \/ ~parse_from_rfc3339(time.end_time).ok

\* fn pretty(&self) -> String, when it does not panic.
pretty(time) ==
    <<"bike ">> \o FormatStart(parse_from_rfc3339(time.start_time))
        \o <<" - ">> \o FormatEnd(parse_from_rfc3339(time.end_time))
        \o <<" temp ", ToString(time.temp), "F precipitation ",
             ToString(time.probability_of_precipitation), "% wind speed ",
             ToString(time.max_wind_speed), " mph">>

\* entries.join("\n")
RECURSIVE Join(_)
Join(lines) ==
    IF lines = <<>> THEN <<>>
    ELSE IF Len(lines) = 1 THEN Head(lines)
    ELSE Head(lines) \o <<NL>> \o Join(Tail(lines))

\* A mutant: the banner is followed by a placeholder when nothing is suitable.
ComposeMsg_placeholder(lines) ==
    IF lines = <<>> THEN <<Banner, NL, "none">>
    ELSE <<Banner, NL>> \o Join(lines)

\* format!("<banner>\n{}", entries.join("\n"))
ComposeMsg(lines) == <<Banner, NL>> \o Join(lines)

(***************************************************************************)
(* The inputs of the model.                                                *)
(***************************************************************************)
SeqUpTo(S, n) == UNION {[1..k -> S] : k \in 0..n}

Period(st, en, day, temperature, precip, ws) ==
    [start_time |-> st, end_time |-> en, is_daytime |-> day,
     temperature |-> temperature, precip |-> precip, wind_speed |-> ws]

W5   == <<"5", " ", "m", "p", "h">>
W12  == <<"1", "2", " ", "m", "p", "h">>
W13  == <<"1", "3", " ", "m", "p", "h">>
W15  == <<"1", "5", " ", "m", "p", "h">>
W18  == <<"1", "8", " ", "m", "p", "h">>
W19  == <<"1", "9", " ", "m", "p", "h">>
W300 == <<"3", "0", "0", " ", "m", "p", "h">>
WCalm == <<"c", "a", "l", "m">>
WEmpty == <<>>
WTab == <<"1", "2", "\t", "m", "p", "h">>

\* Pipeline: three time slots, the middle timestamp not RFC 3339, and four
\* weather variants, two of them suitable.
PipelineTimes == {<<TA, TB>>, <<TB, TX>>, <<TX, TC>>}
PipelineWeather ==
    {<<60, 10, W5>>, <<70, 5, W15>>, <<65, 10, W15>>, <<70, 5, WEmpty>>}
PipelinePeriods ==
    {Period(t[1], t[2], TRUE, w[1], w[2], w[3]) :
        t \in PipelineTimes, w \in PipelineWeather}

\* Policy grid: every threshold of the policy from both sides.
GridTemperature == {49, 50, 65, 66, 83, 84}
GridPrecip == {24, 25}
GridWind == {W12, W13, W15, W18, W19, W300, WCalm, WEmpty, WTab}
GridPeriods ==
    {Period(TA, TB, d, t, p, w) :
        d \in BOOLEAN, t \in GridTemperature, p \in GridPrecip, w \in GridWind}

\* Coalesce harness: suitable periods over three timestamps, two of which
\* denote the same instant.
HarnessTimes == {TA, TB, TBz}
HarnessWeather == {<<60, 10, W5>>, <<70, 5, W15>>}
HarnessPeriods ==
    {p \in {Period(st, en, TRUE, w[1], w[2], w[3]) :
                st \in HarnessTimes, en \in HarnessTimes, w \in HarnessWeather} :
        p.start_time /= p.end_time /\ Suitable(p)}

\* Parser harness: every descriptor over these characters.
Alphabet == {"0", "1", "2", "5", "6", " ", "\t", "m", "+", "-"}

(***************************************************************************)
(* Initial states.                                                         *)
(***************************************************************************)
InitMain(forecasts) ==
    /\ pc = "env"
    /\ result = "running"
    /\ served \in forecasts
    /\ i = 0
    /\ sends = 0
    /\ sleeps = <<>>
    /\ resp = <<>>
    /\ idx = 1
    /\ periods = <<>>
    /\ cidx = 1
    /\ tp = <<>>
    /\ entries = <<>>
    /\ msg = NoMsg
    /\ stdout = <<>>
    /\ sink = <<>>
    /\ descriptor = <<>>
    /\ wind = NoWind

Init == InitMain(SeqUpTo(PipelinePeriods, MaxPeriods))

InitFilter == InitMain(SeqUpTo(GridPeriods, MaxFilterPeriods))

\* coalesce called on a list of suitable periods.
InitCoalesce ==
    /\ pc = "coalesce"
    /\ result = "running"
    /\ served = <<>>
    /\ i = 0
    /\ sends = 0
    /\ sleeps = <<>>
    /\ resp = <<>>
    /\ idx = 1
    /\ periods \in SeqUpTo(HarnessPeriods, MaxSuitable)
    /\ cidx = 1
    /\ tp = <<>>
    /\ entries = <<>>
    /\ msg = NoMsg
    /\ stdout = <<>>
    /\ sink = <<>>
    /\ descriptor = <<>>
    /\ wind = NoWind

\* parse_wind_speed called on a descriptor.
InitParse ==
    /\ pc = "parse"
    /\ result = "running"
    /\ served = <<>>
    /\ i = 0
    /\ sends = 0
    /\ sleeps = <<>>
    /\ resp = <<>>
    /\ idx = 1
    /\ periods = <<>>
    /\ cidx = 1
    /\ tp = <<>>
    /\ entries = <<>>
    /\ msg = NoMsg
    /\ stdout = <<>>
    /\ sink = <<>>
    /\ descriptor \in SeqUpTo(Alphabet, MaxDescriptorLen)
    /\ wind = NoWind

(***************************************************************************)
(* main.                                                                   *)
(***************************************************************************)
\* A mutant: the retry test is off by one.
RetryAllowed_le(n) == n <= MaxRetries

\* if i < 3
RetryAllowed(n) == n < MaxRetries

fetchVars == <<i, sends, sleeps, resp>>
loopVars == <<idx, periods, cidx, tp>>
outVars == <<entries, msg, stdout, sink>>
harnessVars == <<descriptor, wind>>

\* std::env::var("PUSHOVER_USER")?; std::env::var("PUSHOVER_TOKEN")?
EnvOk ==
    /\ pc = "env"
    /\ pc' = "fetch"
    /\ UNCHANGED <<result, served, fetchVars, loopVars, outVars, harnessVars>>

EnvMissing ==
    /\ pc = "env"
    /\ pc' = "done"
    /\ result' = "ErrEnv"
    /\ UNCHANGED <<served, fetchVars, loopVars, outVars, harnessVars>>

\* get_forecast_with_retries: send() is Ok and the body decodes.
SendOk ==
    /\ pc = "fetch"
    /\ sends' = sends + 1
    /\ resp' = served
    /\ pc' = "filter"
    /\ UNCHANGED <<result, served, i, sleeps, loopVars, outVars, harnessVars>>

\* get_forecast_with_retries: send() is Ok and resp.json() is Err, returned
\* as it is by main's `?`.
SendOkJsonErr ==
    /\ pc = "fetch"
    /\ sends' = sends + 1
    /\ result' = "ErrJson"
    /\ pc' = "done"
    /\ UNCHANGED <<served, i, sleeps, resp, loopVars, outVars, harnessVars>>

\* get_forecast_with_retries: send() is Err and i < 3.
SendErrRetry ==
    /\ pc = "fetch"
    /\ RetryAllowed(i)
    /\ sends' = sends + 1
    /\ sleeps' = Append(sleeps, 2 ^ i)
    /\ i' = i + 1
    /\ UNCHANGED <<pc, result, served, resp, loopVars, outVars, harnessVars>>

\* get_forecast_with_retries: send() is Err and i >= 3.
SendErrGiveUp ==
    /\ pc = "fetch"
    /\ ~RetryAllowed(i)
    /\ sends' = sends + 1
    /\ result' = "ErrFetch"
    /\ pc' = "done"
    /\ UNCHANGED <<served, i, sleeps, resp, loopVars, outVars, harnessVars>>

\* One iteration of `for period in resp.properties.periods.iter()`.
FilterIter ==
    /\ pc = "filter"
    /\ idx <= Len(resp)
    /\ periods' = IF Suitable(resp[idx]) THEN Append(periods, resp[idx])
                  ELSE periods
    /\ idx' = idx + 1
    /\ UNCHANGED <<pc, result, served, fetchVars, cidx, tp, outVars, harnessVars>>

\* The filter loop ends and coalesce(periods) is entered.
FilterDone ==
    /\ pc = "filter"
    /\ idx > Len(resp)
    /\ pc' = "coalesce"
    /\ cidx' = 1
    /\ tp' = <<>>
    /\ UNCHANGED <<result, served, fetchVars, idx, periods, outVars, harnessVars>>

\* One iteration of `for cur in periods.into_iter()`.
CoalesceIter ==
    /\ pc = "coalesce"
    /\ cidx <= Len(periods)
    /\ tp' = CoalesceStep(tp, periods[cidx])
    /\ cidx' = cidx + 1
    /\ UNCHANGED <<pc, result, served, fetchVars, idx, periods, outVars, harnessVars>>

\* coalesce returns tp.
CoalesceReturn ==
    /\ pc = "coalesce"
    /\ cidx > Len(periods)
    /\ pc' = "format"
    /\ UNCHANGED <<result, served, fetchVars, loopVars, outVars, harnessVars>>

\* .map(|time| time.pretty()) on the next range: a line, or the panic of
\* unwrap, which ends the process.
Format ==
    /\ pc = "format"
    /\ Len(entries) < Len(tp)
    /\ LET time == tp[Len(entries) + 1]
       IN  IF PrettyPanics(time)
           THEN /\ result' = "Panic"
                /\ pc' = "done"
                /\ UNCHANGED entries
           ELSE /\ entries' = Append(entries, pretty(time))
                /\ UNCHANGED <<pc, result>>
    /\ UNCHANGED <<served, fetchVars, loopVars, msg, stdout, sink, harnessVars>>

\* .collect() is complete; let msg = format!(...).
Compose ==
    /\ pc = "format"
    /\ Len(entries) = Len(tp)
    /\ msg' = ComposeMsg(entries)
    /\ pc' = "print"
    /\ UNCHANGED <<result, served, fetchVars, loopVars, entries, stdout, sink, harnessVars>>

\* println!("{}", msg)
Println ==
    /\ pc = "print"
    /\ stdout' = Append(stdout, msg)
    /\ pc' = "post"
    /\ UNCHANGED <<result, served, fetchVars, loopVars, entries, msg, sink, harnessVars>>

\* client.post(pushover_url).json(&m).send()? is Ok; Ok(())
PostOk ==
    /\ pc = "post"
    /\ sink' = Append(sink, msg)
    /\ result' = "Ok"
    /\ pc' = "done"
    /\ UNCHANGED <<served, fetchVars, loopVars, entries, msg, stdout, harnessVars>>

\* client.post(pushover_url).json(&m).send()? is Err
PostErr ==
    /\ pc = "post"
    /\ sink' = Append(sink, msg)
    /\ result' = "ErrPost"
    /\ pc' = "done"
    /\ UNCHANGED <<served, fetchVars, loopVars, entries, msg, stdout, harnessVars>>

\* The parser harness: wind = parse_wind_speed(descriptor).
Parse ==
    /\ pc = "parse"
    /\ wind' = parse_wind_speed(descriptor)
    /\ pc' = "parsed"
    /\ UNCHANGED <<result, served, fetchVars, loopVars, outVars, descriptor>>

Next ==
    \/ EnvOk
    \/ EnvMissing
    \/ SendOk
    \/ SendOkJsonErr
    \/ SendErrRetry
    \/ SendErrGiveUp
    \/ FilterIter
    \/ FilterDone
    \/ CoalesceIter
    \/ CoalesceReturn
    \/ Format
    \/ Compose
    \/ Println
    \/ PostOk
    \/ PostErr

NextCoalesce == CoalesceIter \/ CoalesceReturn

NextParse == Parse

\* The whole run, on forecasts of the pipeline domain.
Spec == Init /\ [][Next]_vars

\* The whole run, on forecasts of the policy grid.
SpecFilter == InitFilter /\ [][Next]_vars

\* coalesce alone, on every list of suitable periods.
SpecCoalesce == InitCoalesce /\ [][NextCoalesce]_vars

\* parse_wind_speed alone, on every descriptor.
SpecParse == InitParse /\ [][NextParse]_vars

(***************************************************************************)
(* Definitions the properties are stated with.  They are written from the  *)
(* statements, by position and by sets, not by the program's loops.        *)
(***************************************************************************)
Valid(ts) == parse_from_rfc3339(ts).ok
BadRange(r) == ~Valid(r.start_time) \/ ~Valid(r.end_time)

FilterStarted == pc \in {"filter", "coalesce", "format", "print", "post"}
                    \/ (pc = "done" /\ result \in {"Ok", "ErrPost", "Panic"})
FilterFinished == FilterStarted /\ pc /= "filter"

SetMax(S) == CHOOSE m \in S : \A x \in S : x <= m

\* The text before the first character of `seps` (all of it when there is none).
TokenBefore(str, seps) ==
    LET hits == {k \in 1..Len(str) : str[k] \in seps}
    IN  IF hits = {} THEN str
        ELSE SubSeq(str, 1, (CHOOSE k \in hits : \A h \in hits : k <= h) - 1)

\* The digits of a decimal integer token (an optional '+' dropped).
TokenDigits(tok) == IF tok /= <<>> /\ tok[1] = "+" THEN Tail(tok) ELSE tok

IsDecimal(tok) ==
    /\ TokenDigits(tok) /= <<>>
    /\ \A k \in 1..Len(TokenDigits(tok)) : TokenDigits(tok)[k] \in Digit

RECURSIVE PlaceSum(_, _)
PlaceSum(ds, k) ==
    IF k > Len(ds) THEN 0
    ELSE DigitVal(ds[k]) * 10 ^ (Len(ds) - k) + PlaceSum(ds, k + 1)

DecimalValue(tok) == PlaceSum(TokenDigits(tok), 1)

\* What the statement about the parser asks of a descriptor, the first token
\* being delimited by the characters of `seps`.
ParserContract(str, seps, got) ==
    LET tok == TokenBefore(str, seps)
    IN  IF IsDecimal(tok) /\ DecimalValue(tok) <= 255
        THEN got = DecimalValue(tok)
        ELSE got = 255

\* A wind descriptor that is empty, whose first token is not a number, or whose
\* number is out of range.
Malformed(str) ==
    LET tok == TokenBefore(str, {" "})
    IN  str = <<>> \/ ~IsDecimal(tok) \/ DecimalValue(tok) > 255

\* The suitability policy as the specification states it.
Policy(p) ==
    LET w == parse_wind_speed(p.wind_speed)
    IN  /\ p.is_daytime = TRUE
        /\ p.precip < 25
        /\ \/ (50 <= p.temperature /\ p.temperature <= 65 /\ w < 13)
           \/ (65 < p.temperature /\ p.temperature <= 83 /\ w <= 18)

\* The positions at which a run of adjacent periods starts.
Breaks(ps) ==
    {k \in 1..Len(ps) : k = 1 \/ ps[k].start_time /= ps[k - 1].end_time}

NthBreak(ps, j) ==
    CHOOSE b \in Breaks(ps) : Cardinality({x \in Breaks(ps) : x < b}) = j - 1

RunEnd(ps, b) ==
    LET later == {x \in Breaks(ps) : x > b}
    IN  IF later = {} THEN Len(ps)
        ELSE (CHOOSE x \in later : \A y \in later : x <= y) - 1

RunRange(ps, b) ==
    LET run == b..RunEnd(ps, b)
    IN  [start_time |-> ps[b].start_time,
         end_time |-> ps[RunEnd(ps, b)].end_time,
         temp |-> SetMax({ps[k].temperature : k \in run}),
         probability_of_precipitation |-> SetMax({ps[k].precip : k \in run}),
         max_wind_speed |->
             SetMax({parse_wind_speed(ps[k].wind_speed) : k \in run})]

\* One range per maximal run, in input order.
RangesOfRuns(ps) ==
    [j \in 1..Cardinality(Breaks(ps)) |-> RunRange(ps, NthBreak(ps, j))]

DigitChar(d) == CHOOSE c \in Digit : DigitVal(c) = d

RECURSIVE Decimal(_)
Decimal(n) ==
    IF n < 10 THEN <<DigitChar(n)>>
    ELSE Decimal(n \div 10) \o <<DigitChar(n % 10)>>

\* A range taken as a single period: its wind speed written as "N mph".
AsPeriod(r) ==
    Period(r.start_time, r.end_time, TRUE, r.temp,
           r.probability_of_precipitation,
           Decimal(r.max_wind_speed) \o <<" ", "m", "p", "h">>)

\* The aggregated values of a range satisfy the suitability policy.
RangeWithinPolicy(r) ==
    /\ r.probability_of_precipitation < 25
    /\ 50 <= r.temp /\ r.temp <= 83
    /\ r.max_wind_speed <= 18
    /\ (r.temp <= 65 => r.max_wind_speed < 13)

(***************************************************************************)
(* Properties.                                                             *)
(***************************************************************************)

\* C1: after any number of iterations of the filter loop, the suitable list
\* is exactly the periods read so far that satisfy the policy (daytime,
\* precipitation < 25, and 50..65 with wind < 13 or 66..83 with wind <= 18),
\* in input order; a daytime, dry period of 65 degrees and wind 15 is not
\* kept, and no period below 50 or above 83 degrees is kept.
C1_FilterKeepsExactlyPolicy ==
    FilterStarted =>
        /\ periods = SelectSeq(SubSeq(resp, 1, idx - 1), Policy)
        /\ \A k \in 1..Len(periods) :
              /\ periods[k].temperature >= 50
              /\ periods[k].temperature <= 83
              /\ ~(periods[k].temperature = 65
                     /\ parse_wind_speed(periods[k].wind_speed) = 15)

C1_Witness ==
    /\ pc = "coalesce"
    /\ Len(resp) >= 1
    /\ resp[1].is_daytime
    /\ resp[1].precip = 24
    /\ resp[1].temperature = 65
    /\ resp[1].wind_speed = W15
    /\ periods = <<>>

\* C2 as stated: the first token is delimited by whitespace (space or tab);
\* a decimal integer N in 0..255 there gives N, anything else gives 255.
C2_WhitespaceDelimited ==
    pc = "parsed" => ParserContract(descriptor, {" ", "\t"}, wind)

\* C2 as amended: the first token is delimited by the space character only
\* (a tab belongs to the token); a decimal integer N in 0..255 there, with an
\* optional leading '+', gives N, and the empty string, any other first
\* token, or an integer above 255 gives 255.
C2_SpaceDelimited ==
    pc = "parsed" => ParserContract(descriptor, {" "}, wind)

C2_Witness ==
    /\ pc = "parsed"
    /\ descriptor = <<"1", "2", "\t", "m">>
    /\ wind = 255

\* C3: a period whose wind descriptor is malformed is never in the suitable
\* list, whatever its other fields are, so no range is built from it; the
\* ranges never carry the sentinel 255, and the run does not panic.
C3_MalformedWindNeverSuitable ==
    FilterStarted =>
        /\ \A k \in 1..Len(periods) : ~Malformed(periods[k].wind_speed)
        /\ \A k \in 1..Len(tp) : tp[k].max_wind_speed < 255
        /\ result /= "Panic"

C3_Witness ==
    /\ pc = "done"
    /\ result = "Ok"
    /\ Len(resp) >= 1
    /\ resp[1].is_daytime
    /\ resp[1].precip = 24
    /\ resp[1].temperature = 66
    /\ resp[1].wind_speed = WCalm
    /\ periods = <<>>
    /\ tp = <<>>

\* C4: after any number of iterations of coalesce, the working list holds one
\* range per maximal run of the periods read so far in which each period
\* starts at the string the previous one ends at: first start, last end, and
\* the maxima of temperature, precipitation and wind; the last range ends
\* where the last period read ends; no two consecutive ranges are adjacent.
C4_OneRangePerRun ==
    pc \in {"coalesce", "format"} =>
        /\ tp = RangesOfRuns(SubSeq(periods, 1, cidx - 1))
        /\ (tp /= <<>> => Last(tp).end_time = periods[cidx - 1].end_time)
        /\ \A j \in 1..(Len(tp) - 1) : tp[j].end_time /= tp[j + 1].start_time

C4_Witness ==
    /\ pc = "format"
    /\ Len(periods) = 3
    /\ Len(tp) = 2
    /\ periods[1].temperature = 60
    /\ periods[2].temperature = 70
    /\ tp[1].temp = 70
    /\ tp[1].probability_of_precipitation = 10
    /\ tp[1].max_wind_speed = 15
    /\ periods[2].end_time = TB
    /\ periods[3].start_time = TBz

\* C5: coalescing the ranges coalesce returned, each taken as one period,
\* yields the same ranges.
C5_CoalesceIdempotent ==
    pc = "format" => coalesce([j \in 1..Len(tp) |-> AsPeriod(tp[j])]) = tp

C5_Witness ==
    /\ pc = "format"
    /\ Len(tp) = 2
    /\ Len(periods) = 3
    /\ tp[2].max_wind_speed = 15
    /\ tp[2].temp = 70
    /\ tp[2].probability_of_precipitation = 10

\* C6: once a range with a timestamp that is not RFC 3339 has reached the
\* formatter, no message is composed, printed or handed to the sink, and the
\* run ends in the panic.
C6_BadTimestampAborts ==
    (FilterFinished /\ pc /= "coalesce" /\ \E k \in 1..Len(tp) : BadRange(tp[k])) =>
        /\ msg = NoMsg
        /\ stdout = <<>>
        /\ sink = <<>>
        /\ pc \in {"format", "done"}
        /\ (pc = "done" => result = "Panic")

C6_Witness ==
    /\ pc = "done"
    /\ result = "Panic"
    /\ Len(tp) = 2
    /\ ~BadRange(tp[1])
    /\ BadRange(tp[2])
    /\ Len(entries) = 1

\* C7: when no period of the fetched forecast is suitable, the run does not
\* panic, coalesce returns the empty list, and the message composed, printed
\* and handed to the sink is the banner line alone.
C7_NoSuitablePeriodBannerOnly ==
    (FilterFinished /\ periods = <<>>) =>
        /\ result /= "Panic"
        /\ tp = <<>>
        /\ entries = <<>>
        /\ (pc \in {"print", "post", "done"} => msg = <<Banner, NL>>)
        /\ (pc \in {"post", "done"} => stdout = <<<<Banner, NL>>>>)
        /\ (pc = "done" => sink = <<<<Banner, NL>>>>)

C7_Witness ==
    /\ pc = "done"
    /\ result = "Ok"
    /\ Len(resp) = 3
    /\ periods = <<>>
    /\ sink = <<<<Banner, NL>>>>

\* What C8 says besides the number of attempts: the k-th sleep lasts 2^(k-1)
\* seconds, an error is returned only when the retries are used up, and a
\* successful send ends the loop at once, whether or not its body decodes.
RetryDiscipline ==
    /\ i <= MaxRetries
    /\ sleeps = [k \in 1..i |-> 2 ^ (k - 1)]
    /\ (pc = "fetch" => sends = i)
    /\ (result = "ErrFetch" => i = MaxRetries /\ sends = i + 1)
    /\ (pc \notin {"env", "fetch"} /\ result \notin {"ErrEnv", "ErrFetch"}
           => sends = i + 1)

\* C8 as stated: at most 3 send attempts in total.
C8_AtMostThreeSends == sends <= 3 /\ RetryDiscipline

\* C8 as amended: at most 4 send attempts in total, the first one and at
\* most 3 retries, with sleeps of 1, 2 and 4 seconds before the retries.
C8_AtMostFourSends == sends <= MaxRetries + 1 /\ RetryDiscipline

C8_Witness ==
    /\ result = "ErrFetch"
    /\ sends = 4
    /\ sleeps = <<1, 2, 4>>

\* C9: an iteration of the loop of coalesce leaves every range but the last
\* as it was and where it was, changes the length by 0 or by 1, leaves the
\* old last range as it was when it appends, and leaves the start of the last
\* range as it was when it merges.
C9_OnlyTailChanges ==
    [][(pc = "coalesce" /\ cidx <= Len(periods)) =>
          /\ Len(tp') \in {Len(tp), Len(tp) + 1}
          /\ \A k \in 1..(Len(tp) - 1) : tp'[k] = tp[k]
          /\ (Len(tp') = Len(tp) + 1 /\ tp /= <<>> => tp'[Len(tp)] = Last(tp))
          /\ (Len(tp') = Len(tp) =>
                 tp /= <<>> /\ Last(tp').start_time = Last(tp).start_time)]_vars

C9_Witness ==
    /\ pc = "coalesce"
    /\ cidx = 4
    /\ Len(tp) = 2
    /\ tp[2].start_time = periods[2].start_time
    /\ tp[2].end_time = periods[3].end_time

\* C10: after any number of iterations of coalesce in the pipeline, every
\* range of the working list has aggregated values within the policy.
C10_RangesWithinPolicy ==
    FilterFinished => \A k \in 1..Len(tp) : RangeWithinPolicy(tp[k])

C10_Witness ==
    /\ pc = "coalesce"
    /\ cidx = 3
    /\ Len(tp) = 1
    /\ periods[1].temperature = 60
    /\ tp[1].temp = 70
    /\ tp[1].max_wind_speed = 15

====
